---- MODULE Spec2Model ----
(***************************************************************************)
(* A model of the RAG pipeline of Full-rag-chroma-python: the chunker and  *)
(* the importer (lib/rag_importer.py), the document loader                 *)
(* (lib/sample_data.py), the query/answer engine (lib/rag_query.py), the   *)
(* embedder and its model cache (lib/embedding.py) and the console entry   *)
(* point (console.py).  Texts are sequences of one-character strings,      *)
(* offsets are 0-based as in Python.                                       *)
(***************************************************************************)
EXTENDS Integers, Sequences, FiniteSets, TLC

VARIABLES
    chunk_size,     \* DataImporter.chunk_size
    overlap,        \* DataImporter.overlap
    ck_text,        \* the argument of a direct __chunk_text call
    ck_out,         \* what that call returned or raised; Pending before it
    embed_fn,       \* DataImporter.embed_fn: TRUE for a callable, FALSE for None
    store,          \* the records of the Chroma collection
    store0,         \* the collection as it was when the running call began
    pc,             \* where the running load_data call stands; "idle" between calls
    items,          \* load_data: the list of documents of the call
    item_i,         \* load_data: the position of `item` in items (from 1)
    chunks,         \* load_data: the chunks of the current item
    chunk_i,        \* load_data: i of enumerate(chunks) (from 0)
    outcome,        \* how the last load_data call ended; "none" before the first
    n_get,          \* collection.get calls made by the call
    n_embed,        \* embed_fn calls made by the call
    n_add,          \* collection.add calls made by the call
    n_calls,        \* load_data calls started
    rerun,          \* the call repeats the previous, successful call's documents
    resumed,        \* the call repeats the documents of the previous call, which
                    \* an embedding or an insert interrupted
    base,           \* the collection as it was when the interrupted call began
    provider,       \* LLMSearch.provider
    api_key,        \* whether OPENAI_API_KEY is set in the environment
    verbose,        \* LLMSearch.verbose
    q_pc,           \* where the LLMSearch object stands: "new", "ready", "asking", "failed"
    via,            \* the method called last: "search" (search_with_context) or "ask"
    results,        \* search_with_context: the retrieval result it was given
    prompt,         \* the prompt sent to the backend
    shown,          \* what the call printed on the console
    ret,            \* what the last LLMSearch call returned or raised
    n_llm,          \* requests sent to an LLM backend by the call
    ld_pc,          \* where the running load_docs call stands; "idle" before it
    urls,           \* load_docs: the list of URLs
    url_i,          \* _load_data_from_url: idx of enumerate(urls) (from 0)
    data,           \* _load_data_from_url: the documents collected; load_docs' result
    gets,           \* the HTTP GETs issued, per position of urls
    fetched,        \* the replies of those GETs, in the order received
    config,         \* main: the parsed command line
    m_pc,           \* main: where the run stands
    m_err,          \* main: the exception that ended the run; "none" otherwise
    m_results,      \* main: what collection.query returned
    m_embeds,       \* main: embed_fn calls made for the query
    m_queries,      \* main: collection.query calls
    r_pc,           \* per concurrent importer: where its load_data call stands
    r_items,        \* per concurrent importer: the documents it was given
    r_item_i,       \* per concurrent importer: the item it is at
    r_chunks,       \* per concurrent importer: the chunks of that item
    r_chunk_i,      \* per concurrent importer: the index i of enumerate(chunks)
    r_looked,       \* per concurrent importer: the add calls made when it last looked up
    r_adds,         \* the collection.add calls of the concurrent importers, in order
    local_models,   \* Embedder._local_models: the process-wide cache, as entries
    embedders,      \* the Embedder objects constructed in this process
    e_ret,          \* what the last Embedder call returned or raised
    n_loaded,       \* per model name: the SentenceTransformer objects built for it
    e_asked         \* the model names local Embedders were constructed with

ckVars == <<ck_text, ck_out>>
cfgVars == <<chunk_size, overlap>>
impVars == <<embed_fn, store, store0, pc, items, item_i, chunks, chunk_i, outcome,
             n_get, n_embed, n_add, n_calls, rerun, resumed, base>>
qVars == <<provider, api_key, verbose, q_pc, via, results, prompt, shown, ret, n_llm>>
vars == <<chunk_size, overlap, ck_text, ck_out, embed_fn, store, store0, pc, items,
          item_i, chunks, chunk_i, outcome, n_get, n_embed, n_add, n_calls, rerun,
          resumed, base,
          provider, api_key, verbose, q_pc, via, results, prompt, shown, ret, n_llm,
          ld_pc, urls, url_i, data, gets, fetched,
          config, m_pc, m_err, m_results, m_embeds, m_queries,
          r_pc, r_items, r_item_i, r_chunks, r_chunk_i, r_looked, r_adds,
          local_models, embedders, e_ret, n_loaded, e_asked>>
ldVars == <<ld_pc, urls, url_i, data, gets, fetched>>
mVars == <<config, m_pc, m_err, m_results, m_embeds, m_queries>>
raceVars == <<r_pc, r_items, r_item_i, r_chunks, r_chunk_i, r_looked, r_adds>>
cacheVars == <<local_models, embedders, e_ret, n_loaded, e_asked>>
\* the state only the specifications of a single component use
sideVars == <<ckVars, raceVars, cacheVars>>
\* what each component leaves alone
notChunk == <<impVars, qVars, ldVars, mVars, raceVars, cacheVars>>
notImport == <<sideVars, qVars, ldVars, mVars>>
notLLM == <<cfgVars, sideVars, impVars, ldVars, mVars>>
notLoader == <<cfgVars, sideVars, impVars, qVars, mVars>>
notEmbedder == <<cfgVars, ckVars, raceVars, impVars, qVars, ldVars, mVars>>
\* concurrent importers share the collection and the parameters
notRace == <<cfgVars, ckVars, cacheVars, qVars, ldVars, mVars, embed_fn, store0, pc, items,
             item_i, chunks, chunk_i, outcome, n_get, n_embed, n_add, n_calls, rerun,
             resumed, base>>

-----------------------------------------------------------------------------
(* Bounds of the model *)

MaxLen == 5         \* longest text drawn for the chunker
MaxSize == 4        \* largest chunk_size / overlap drawn
MaxDocLen == 5      \* longest document text imported
MaxDocs == 2        \* most documents in one load_data call
MaxCalls == 2       \* most load_data calls in one behaviour
MaxUrls == 2        \* most URLs in one load_docs call
MaxRaceDocs == 1    \* most documents each of two concurrent importers is given
MaxEmbedders == 3   \* most Embedder objects constructed in one process

(* Program constants *)
DefaultChunkSize == 500
DefaultOverlap == 50

Alphabet == {"a", "b"}
Letters == <<"a", "b", "c", "d", "e", "f", "g", "h", "i", "j">>

Min(a, b) == IF a < b THEN a ELSE b
Max(a, b) == IF a > b THEN a ELSE b

\* the text of length n that repeats Letters: "abcdefghijabc..."
LetterText(n) == [i \in 1..n |-> Letters[((i - 1) % Len(Letters)) + 1]]

\* every text over Alphabet of length n
TextsOfLen(n) == [1..n -> Alphabet]
Texts == UNION {TextsOfLen(n) : n \in 0..MaxLen}

\* chunk_size and overlap are plain ints: the importer's constructor checks nothing
Params == (-1)..MaxSize

-----------------------------------------------------------------------------
(* Python's slicing *)

\* how a slice bound i is resolved against a sequence of length n
PyIndex(i, n) == IF i < 0 THEN Max(i + n, 0) ELSE Min(i, n)

\* the resolved bounds <<lo, hi>> of text[a:b] (0-based, hi exclusive)
PyBounds(a, b, n) == <<PyIndex(a, n), PyIndex(b, n)>>

\* text[lo:hi] for resolved bounds
Slice(text, lo, hi) == IF hi <= lo THEN <<>> ELSE SubSeq(text, lo + 1, hi)

-----------------------------------------------------------------------------
(* DataImporter.__chunk_text *)

\* a chunk as the loop produces it: its text and the range it was cut from
Piece(text, lo, hi) == [lo |-> lo, hi |-> hi, chunk |-> Slice(text, lo, hi)]

\* the final chunk: text[-size:]
FinalPiece(text, size) ==
    LET n == Len(text)
        b == <<PyIndex(-size, n), n>>
    IN  Piece(text, b[1], b[2])

\* a chunk that is not the last: text[start:end]
InnerPiece(text, start, end) ==
    LET b == PyBounds(start, end, Len(text))
    IN  Piece(text, b[1], b[2])

\* the guard of the while loop
LoopGuard(start, n) == start < n

\* (mutant) the test for the last chunk misses a chunk that ends exactly at
\* the end of the text
IsLastStrict(end, n) == end > n

\* whether the chunk that starts at start is the last one
IsLast(end, n) == end >= n

\* the while loop, from its state (start, chunks)
RECURSIVE ChunkLoop(_, _, _, _, _)
ChunkLoop(text, size, step, start, acc) ==
    IF ~LoopGuard(start, Len(text)) THEN acc
    ELSE LET end == start + size
         IN  IF IsLast(end, Len(text))
             THEN Append(acc, FinalPiece(text, size))
             ELSE ChunkLoop(text, size, step, start + step,
                            Append(acc, InnerPiece(text, start, end)))

\* (mutant) the stride adds the overlap instead of taking it off
StepAddsOverlap(size, ov) == size + ov

\* (mutant) the stride ignores the overlap
StepIgnoresOverlap(size, ov) == size

\* step = self.chunk_size - self.overlap
Step(size, ov) == size - ov

\* (mutant) the check forgets the negative overlap
ValidParamsNoNegative(size, ov) == size > 0 /\ ~(ov >= size)

\* the parameter check at the head of __chunk_text
ValidParams(size, ov) == size > 0 /\ ~(ov < 0 \/ ov >= size)

\* the chunks with the ranges they were cut from
Pieces(text, size, ov) == ChunkLoop(text, size, Step(size, ov), 0, <<>>)

\* what __chunk_text does for self.chunk_size = size, self.overlap = ov
chunk_text(text, size, ov) ==
    IF ~ValidParams(size, ov)
    THEN [raised |-> "ValueError", pieces |-> <<>>]
    ELSE [raised |-> "no", pieces |-> Pieces(text, size, ov)]

\* the list of strings the caller sees
ChunkList(pieces) == [i \in 1..Len(pieces) |-> pieces[i].chunk]

\* the two examples of the chunker's documentation
Examples ==
    { [text |-> LetterText(10), size |-> 4, ov |-> 1],
      [text |-> LetterText(1000), size |-> DefaultChunkSize, ov |-> DefaultOverlap] }

\* no call made yet
Pending == [raised |-> "pending", pieces |-> <<>>]

ChunkText ==
    /\ ck_out = Pending
    /\ ck_out' = chunk_text(ck_text, chunk_size, overlap)
    /\ UNCHANGED <<ck_text, cfgVars>>

-----------------------------------------------------------------------------
(* DataImporter.load_data against the collection *)

DocIds == {"d1", "d2"}
NoMeta == [source |-> "-"]                \* item.get("meta", {}) of an item without meta
Metas == {[source |-> "notes"]}

\* the documents a call may be given, for an importer with these parameters:
\* short texts of distinct letters and, with the parameters of the documented
\* example, the ten-letter text of that example
DocTexts(size, ov) ==
    {LetterText(n) : n \in {0, 2, MaxDocLen}}
        \cup {e.text : e \in {x \in Examples : x.size = size /\ x.ov = ov}}

Docs(size, ov) == [id : DocIds, doc : DocTexts(size, ov), meta : Metas]

\* lists of at most n documents
RECURSIVE ListsUpTo(_, _)
ListsUpTo(S, n) ==
    IF n = 0 THEN {<<>>}
    ELSE LET shorter == ListsUpTo(S, n - 1)
         IN  shorter \cup {Append(l, d) : l \in shorter, d \in S}

\* (mutant) the chunks are numbered from 1
ChunkIdFromOne(doc_id, i) == doc_id \o "_chunk" \o ToString(i + 1)

\* f"{doc_id}_chunk{i}"
ChunkId(doc_id, i) == doc_id \o "_chunk" \o ToString(i)

\* embed_fn([chunk])[0]: the vector of the chunk's text
Embed(chunk) == <<"vec", chunk>>
NoEmbedding == <<"None">>

\* (mutant) the lookup never finds the id
GetIdsNeverFinds(st, id) == {}

\* (mutant) the lookup reads the collection as it was when the call began
GetIdsAtEntry(st, id) == {r.id : r \in {x \in store0 : x.id = id}}

\* collection.get(ids=[id]).get("ids"): the ids found
GetIds(st, id) == {r.id : r \in {x \in st : x.id = id}}

\* the record collection.add stores
Record(id, chunk, emb, meta) ==
    [id |-> id, document |-> chunk, embedding |-> emb, metadata |-> meta]

\* collection.add: the record joins the collection
CollectionAdd(st, rec) == st \cup {rec}

\* the loops' next position once chunk i of the current item is dealt with
AfterChunk ==
    IF chunk_i + 1 < Len(chunks)
    THEN /\ chunk_i' = chunk_i + 1
         /\ pc' = "chunk"
         /\ UNCHANGED item_i
    ELSE /\ chunk_i' = 0
         /\ item_i' = item_i + 1
         /\ pc' = "item"

\* the exceptions of the embedding call and of the insert
Interruptions == {"EmbedError", "AddError"}

\* load_data is called (lines 69-72)
LoadData(its) ==
    /\ pc = "idle"
    /\ n_calls < MaxCalls
    /\ items' = its
    /\ item_i' = 1
    /\ chunks' = <<>>
    /\ chunk_i' = 0
    /\ pc' = "item"
    /\ outcome' = "running"
    /\ n_get' = 0
    /\ n_embed' = 0
    /\ n_add' = 0
    /\ n_calls' = n_calls + 1
    /\ rerun' = (outcome = "ok" /\ its = items)
    /\ resumed' = (outcome \in Interruptions /\ its = items)
    /\ base' = IF resumed' THEN (IF resumed THEN base ELSE store0) ELSE store
    /\ store0' = store
    /\ UNCHANGED <<store, embed_fn, cfgVars>>

\* the call returns after the last item (lines 99-102)
Return ==
    /\ pc = "item"
    /\ item_i > Len(items)
    /\ pc' = "idle"
    /\ outcome' = "ok"
    /\ UNCHANGED <<items, item_i, chunks, chunk_i, n_get, n_embed, n_add,
                   n_calls, rerun, resumed, base, store, store0, embed_fn,
                   cfgVars>>

\* the next item is taken and chunked (lines 74-79)
NextItem ==
    /\ pc = "item"
    /\ item_i <= Len(items)
    /\ LET r == chunk_text(items[item_i].doc, chunk_size, overlap)
       IN  IF r.raised # "no"
           THEN /\ pc' = "idle"
                /\ outcome' = r.raised
                /\ UNCHANGED <<chunks, chunk_i, item_i>>
           ELSE /\ chunks' = ChunkList(r.pieces)
                /\ outcome' = outcome
                /\ IF r.pieces = <<>>
                   THEN /\ item_i' = item_i + 1
                        /\ pc' = "item"
                        /\ chunk_i' = 0
                   ELSE /\ chunk_i' = 0
                        /\ pc' = "chunk"
                        /\ UNCHANGED item_i
    /\ UNCHANGED <<items, n_get, n_embed, n_add, n_calls, rerun, resumed, base,
                   store,
                   store0, embed_fn, cfgVars>>

\* the existence lookup of chunk i (line 83)
Lookup ==
    /\ pc = "chunk"
    /\ n_get' = n_get + 1
    /\ IF GetIds(store, ChunkId(items[item_i].id, chunk_i)) # {}
       THEN AfterChunk
       ELSE /\ pc' = "add"
            /\ UNCHANGED <<item_i, chunk_i>>
    /\ UNCHANGED <<items, chunks, outcome, n_embed, n_add, n_calls, rerun, resumed,
                   base, store, store0, embed_fn, cfgVars>>

\* the chunk is embedded and added (lines 84-89)
Add ==
    /\ pc = "add"
    /\ n_embed' = IF embed_fn THEN n_embed + 1 ELSE n_embed
    /\ n_add' = n_add + 1
    /\ store' = CollectionAdd(store,
                    Record(ChunkId(items[item_i].id, chunk_i),
                           chunks[chunk_i + 1],
                           IF embed_fn THEN Embed(chunks[chunk_i + 1]) ELSE NoEmbedding,
                           items[item_i].meta))
    /\ AfterChunk
    /\ UNCHANGED <<items, chunks, outcome, n_get, n_calls, rerun, resumed, base,
                   store0,
                   embed_fn, cfgVars>>

\* embed_fn raises: the exception leaves load_data (line 87)
EmbedRaises ==
    /\ pc = "add"
    /\ embed_fn
    /\ n_embed' = n_embed + 1
    /\ pc' = "idle"
    /\ outcome' = "EmbedError"
    /\ UNCHANGED <<items, item_i, chunks, chunk_i, n_get, n_add, n_calls,
                   rerun, resumed, base, store, store0, embed_fn, cfgVars>>

\* collection.add raises once the chunk is embedded: nothing is stored and
\* the exception leaves load_data (lines 84-89)
AddRaises ==
    /\ pc = "add"
    /\ n_embed' = IF embed_fn THEN n_embed + 1 ELSE n_embed
    /\ pc' = "idle"
    /\ outcome' = "AddError"
    /\ UNCHANGED <<items, item_i, chunks, chunk_i, n_get, n_add, n_calls,
                   rerun, resumed, base, store, store0, embed_fn, cfgVars>>

-----------------------------------------------------------------------------
(* Two importers running load_data against the same collection.  Each is   *)
(* the loop of load_data again, with its position kept per importer; a     *)
(* step is one call on the collection or one chunking.                     *)

Importers == {1, 2}

\* the chunk id importer p is at
RaceChunkId(p) == ChunkId(r_items[p][r_item_i[p]].id, r_chunk_i[p])

\* importer p's next position once its chunk i is dealt with
RaceAfterChunk(p) ==
    IF r_chunk_i[p] + 1 < Len(r_chunks[p])
    THEN /\ r_chunk_i' = [r_chunk_i EXCEPT ![p] = @ + 1]
         /\ r_pc' = [r_pc EXCEPT ![p] = "chunk"]
         /\ UNCHANGED r_item_i
    ELSE /\ r_chunk_i' = [r_chunk_i EXCEPT ![p] = 0]
         /\ r_item_i' = [r_item_i EXCEPT ![p] = @ + 1]
         /\ r_pc' = [r_pc EXCEPT ![p] = "item"]

\* importer p's load_data is called (lines 69-72)
RaceLoadData(p, its) ==
    /\ r_pc[p] = "idle"
    /\ r_items' = [r_items EXCEPT ![p] = its]
    /\ r_item_i' = [r_item_i EXCEPT ![p] = 1]
    /\ r_pc' = [r_pc EXCEPT ![p] = "item"]
    /\ UNCHANGED <<r_chunks, r_chunk_i, r_looked, r_adds, store>>

\* importer p takes its next item and chunks it (lines 74-79)
RaceNextItem(p) ==
    /\ r_pc[p] = "item"
    /\ r_item_i[p] <= Len(r_items[p])
    /\ LET r == chunk_text(r_items[p][r_item_i[p]].doc, chunk_size, overlap)
       IN  IF r.raised # "no"
           THEN /\ r_pc' = [r_pc EXCEPT ![p] = r.raised]
                /\ UNCHANGED <<r_chunks, r_chunk_i, r_item_i>>
           ELSE /\ r_chunks' = [r_chunks EXCEPT ![p] = ChunkList(r.pieces)]
                /\ r_chunk_i' = [r_chunk_i EXCEPT ![p] = 0]
                /\ IF r.pieces = <<>>
                   THEN /\ r_item_i' = [r_item_i EXCEPT ![p] = @ + 1]
                        /\ UNCHANGED r_pc
                   ELSE /\ r_pc' = [r_pc EXCEPT ![p] = "chunk"]
                        /\ UNCHANGED r_item_i
    /\ UNCHANGED <<r_items, r_looked, r_adds, store>>

\* importer p's existence lookup (line 83)
RaceLookup(p) ==
    /\ r_pc[p] = "chunk"
    /\ r_looked' = [r_looked EXCEPT ![p] = Len(r_adds)]
    /\ IF GetIds(store, RaceChunkId(p)) # {}
       THEN RaceAfterChunk(p)
       ELSE /\ r_pc' = [r_pc EXCEPT ![p] = "add"]
            /\ UNCHANGED <<r_item_i, r_chunk_i>>
    /\ UNCHANGED <<r_items, r_chunks, r_adds, store>>

\* importer p embeds its chunk and adds it (lines 84-89)
RaceAdd(p) ==
    /\ r_pc[p] = "add"
    /\ store' = CollectionAdd(store,
                    Record(RaceChunkId(p),
                           r_chunks[p][r_chunk_i[p] + 1],
                           IF embed_fn THEN Embed(r_chunks[p][r_chunk_i[p] + 1])
                                       ELSE NoEmbedding,
                           r_items[p][r_item_i[p]].meta))
    /\ r_adds' = Append(r_adds, [by |-> p, id |-> RaceChunkId(p),
                                 looked |-> r_looked[p]])
    /\ RaceAfterChunk(p)
    /\ UNCHANGED <<r_items, r_chunks, r_looked>>

\* importer p's call returns after its last item (lines 99-102)
RaceReturn(p) ==
    /\ r_pc[p] = "item"
    /\ r_item_i[p] > Len(r_items[p])
    /\ r_pc' = [r_pc EXCEPT ![p] = "done"]
    /\ UNCHANGED <<r_items, r_item_i, r_chunks, r_chunk_i, r_looked, r_adds, store>>

-----------------------------------------------------------------------------
(* JSON values and the Python operations the answer engine applies to them. *)
(* Every value has the same four fields, so that values of different types  *)
(* can be told apart; a string is a sequence of pieces of text.             *)

JNull == [t |-> "null", s |-> <<>>, d |-> {}, l |-> <<>>]
JStr(x) == [t |-> "str", s |-> x, d |-> {}, l |-> <<>>]
JList(xs) == [t |-> "list", s |-> <<>>, d |-> {}, l |-> xs]
\* a dict, from its set of [k |-> key, v |-> value] entries
JDict(es) == [t |-> "dict", s |-> <<>>, d |-> es, l |-> <<>>]
Entry(k, v) == [k |-> k, v |-> v]

\* the outcome of a Python expression: a value, or the exception it raises
Val(v) == [exc |-> "none", val |-> v]
Raise(e) == [exc |-> e, val |-> JNull]

\* key in data
PyIn(key, obj) ==
    CASE obj.t = "dict" -> [exc |-> "none", b |-> \E e \in obj.d : e.k = key]
      [] obj.t = "list" ->
            [exc |-> "none", b |-> \E i \in 1..Len(obj.l) : obj.l[i] = JStr(<<key>>)]
      [] OTHER -> [exc |-> "TypeError", b |-> FALSE]     \* None is not iterable

\* data[key] for a string key
PyGetKey(obj, key) ==
    CASE obj.t = "dict" ->
            IF \E e \in obj.d : e.k = key
            THEN Val((CHOOSE e \in obj.d : e.k = key).v)
            ELSE Raise("KeyError")
      [] OTHER -> Raise("TypeError")    \* list, str and None take no string index

\* data[-1]
PyGetLast(obj) ==
    CASE obj.t = "list" ->
            IF obj.l = <<>> THEN Raise("IndexError") ELSE Val(obj.l[Len(obj.l)])
      [] obj.t = "str" ->
            IF obj.s = <<>> THEN Raise("IndexError") ELSE Val(JStr(<<obj.s[Len(obj.s)]>>))
      [] obj.t = "dict" -> Raise("KeyError")
      [] OTHER -> Raise("TypeError")

\* a[k1][k2], where a is itself the outcome of an expression
Then(a, Op(_)) == IF a.exc # "none" THEN a ELSE Op(a.val)

BLANK == " "

\* str.strip(), on a sequence of pieces
RECURSIVE LStrip(_)
LStrip(x) == IF x # <<>> /\ x[1] = BLANK THEN LStrip(Tail(x)) ELSE x
RECURSIVE RStrip(_)
RStrip(x) ==
    IF x # <<>> /\ x[Len(x)] = BLANK THEN RStrip(SubSeq(x, 1, Len(x) - 1)) ELSE x
Strip(x) == RStrip(LStrip(x))

\* "\n".join(rows)
RECURSIVE JoinLines(_)
JoinLines(rows) ==
    IF rows = <<>> THEN <<>>
    ELSE IF Len(rows) = 1 THEN rows[1]
    ELSE rows[1] \o <<"\n">> \o JoinLines(Tail(rows))

-----------------------------------------------------------------------------
(* LLMSearch (lib/rag_query.py) *)

\* what a method call ended with
Returned(v) == [kind |-> "return", exc |-> "none", val |-> v]
Raised(e) == [kind |-> "raise", exc |-> e, val |-> JNull]
NoRet == [kind |-> "none", exc |-> "none", val |-> JNull]

NoResultsMessage == JStr(<<"[No results to process.]">>)
UnexpectedFormat == JStr(<<"[Error]: Unexpected response format from Ollama.">>)
ConnectionError(e) == JStr(<<"[Connection error with Ollama]: ", e>>)
QueryError(e) == JStr(<<"[LLM query error]: ", e>>)

\* the replies of the HTTP POST of _ask_ollama
\* requests.post raises (connection refused, timeout), raise_for_status raises
\* (4xx, 5xx), response.json() raises (the body is not JSON): each a
\* requests.exceptions.RequestException
HttpFailures == {"ConnectionError", "Timeout", "HTTPError", "JSONDecodeError"}

Contents == {JStr(<<"answer">>), JNull}
Messages == {JNull, JDict({})} \cup {JDict({Entry("content", c)}) : c \in Contents}
JsonBodies ==
    {JNull, JList(<<>>), JDict({}), JDict({Entry("error", JStr(<<"no model">>))})}
        \cup {JDict({Entry("message", m)}) : m \in Messages}
        \cup {JDict({Entry("messages", JList(<<>>))})}
        \cup {JDict({Entry("messages", JList(<<m>>))}) : m \in Messages}
        \cup {JDict({Entry("messages", JList(<<JDict({}), m>>))}) : m \in Messages}

HttpReplies ==
    {[fails |-> f, body |-> JNull] : f \in HttpFailures}
        \cup {[fails |-> "no", body |-> b] : b \in JsonBodies}

\* what a function leaves when an expression it returns raises
ReturnOf(x) == IF x.exc # "none" THEN Raised(x.exc) ELSE Returned(x.val)

GetContent(m) == PyGetKey(m, "content")
GetLastContent(ms) == Then(PyGetLast(ms), GetContent)

\* the body of the try block, once the body has been parsed (lines 136-141)
OllamaData(obj) ==
    LET hasMessage == PyIn("message", obj)
        hasMessages == PyIn("messages", obj)
    IN  IF hasMessage.exc # "none" THEN Raised(hasMessage.exc)
        ELSE IF hasMessage.b
             THEN ReturnOf(Then(PyGetKey(obj, "message"), GetContent))
        ELSE IF hasMessages.b
             THEN ReturnOf(Then(PyGetKey(obj, "messages"), GetLastContent))
        ELSE Returned(UnexpectedFormat)

\* the except clause catches requests.exceptions.RequestException only
CaughtByOllama(e) == e \in HttpFailures

\* _ask_ollama, for the reply h of the request
ask_ollama(h) ==
    IF h.fails # "no"
    THEN IF CaughtByOllama(h.fails) THEN Returned(ConnectionError(h.fails))
         ELSE Raised(h.fails)
    ELSE OllamaData(h.body)

\* the replies of client.chat.completions.create: an API error, or a response
\* with its list of choices, each the message content (a string or None)
OpenAIContents == {JStr(<<"answer">>), JStr(<<BLANK, "answer", BLANK>>), JNull}
OpenAIReplies ==
    {[fails |-> "APIError", choices |-> <<>>], [fails |-> "no", choices |-> <<>>]}
        \cup {[fails |-> "no", choices |-> <<c>>] : c \in OpenAIContents}

\* _ask_openai: response.choices[0].message.content.strip()
ask_openai(o) ==
    IF o.fails # "no" THEN Raised(o.fails)
    ELSE IF o.choices = <<>> THEN Raised("IndexError")
    ELSE IF o.choices[1].t # "str" THEN Raised("AttributeError")
    ELSE Returned(JStr(Strip(o.choices[1].s)))

\* the retrieval results: the dict collection.query returns, with the keys
\* present in it; ids, documents and distances are parallel lists of rows
RetrievedTexts == <<<<"t1">>, <<"t2">>>>
Rows == {<<>>, << <<>> >>, <<SubSeq(RetrievedTexts, 1, 1)>>, <<RetrievedTexts>>}
RowIds(rows) == [i \in 1..Len(rows) |-> [j \in 1..Len(rows[i]) |-> "id"]]
RowDistances(rows) == [i \in 1..Len(rows) |-> [j \in 1..Len(rows[i]) |-> 0]]
ResultsOf(rows, keys) ==
    [keys |-> keys, ids |-> RowIds(rows), documents |-> rows,
     distances |-> RowDistances(rows)]
ResultSets ==
    {ResultsOf(rows, {"ids", "documents", "distances"}) : rows \in Rows}
        \cup {ResultsOf(<<>>, {}), ResultsOf(<< <<>> >>, {"ids", "distances"})}
NoResults == ResultsOf(<<>>, {})

\* results.get(key, default)
ResultsGet(res, key, default) == IF key \in res.keys THEN res[key] ELSE default

\* (mutant) the test forgets the empty first row
NothingRetrievedNoRowCheck(docs) == docs = <<>>

\* not retrieved_docs or not retrieved_docs[0]
NothingRetrieved(docs) == docs = <<>> \/ docs[1] = <<>>

\* the rows of the table _print_results_table prints
ResultsTable(res) ==
    LET ids == ResultsGet(res, "ids", <<>>)
        docs == ResultsGet(res, "documents", <<>>)
        dist == ResultsGet(res, "distances", <<>>)
        n == Min(Len(ids), Min(Len(docs), Len(dist)))
    IN  [i \in 1..n |->
            [j \in 1..Min(Len(ids[i]), Min(Len(docs[i]), Len(dist[i]))) |->
                <<ids[i][j], docs[i][j], dist[i][j]>>]]

BuildPrompt(docs, user_query) ==
    [context |-> JoinLines(docs[1]), question |-> user_query]
NoPrompt == [context |-> <<>>, question |-> ""]

Providers == {"openai", "local", "other"}

\* LLMSearch.__init__
NewLLMSearch ==
    /\ q_pc = "new"
    /\ IF provider = "openai"
       THEN IF ~api_key
            THEN /\ q_pc' = "failed"
                 /\ ret' = Raised("EnvironmentError")
            ELSE /\ q_pc' = "ready"
                 /\ ret' = NoRet
       ELSE IF provider = "local"
            THEN /\ q_pc' = "ready"
                 /\ ret' = NoRet
            ELSE /\ q_pc' = "failed"
                 /\ ret' = Raised("ValueError")
    /\ UNCHANGED <<provider, api_key, verbose, via, results, prompt, shown, n_llm>>

\* search_with_context, up to the call of ask (lines 64-86)
SearchWithContext(user_query, res) ==
    /\ q_pc = "ready"
    /\ results' = res
    /\ n_llm' = 0
    /\ LET docs == ResultsGet(res, "documents", << <<>> >>)
           table == IF verbose THEN <<ResultsTable(res)>> ELSE <<>>
       IN  IF NothingRetrieved(docs)
           THEN /\ ret' = Returned(NoResultsMessage)
                /\ shown' = table
                /\ prompt' = NoPrompt
                /\ via' = "search"
                /\ UNCHANGED q_pc
           ELSE /\ prompt' = BuildPrompt(docs, user_query)
                /\ shown' = IF verbose THEN Append(table, prompt') ELSE table
                /\ ret' = NoRet
                /\ q_pc' = "asking"
                /\ via' = "search"
    /\ UNCHANGED <<provider, api_key, verbose>>

\* ask, called directly with a prompt (lines 37-51)
Ask(p) ==
    /\ q_pc = "ready"
    /\ prompt' = p
    /\ n_llm' = 0
    /\ ret' = NoRet
    /\ shown' = <<>>
    /\ results' = NoResults
    /\ q_pc' = "asking"
    /\ via' = "ask"
    /\ UNCHANGED <<provider, api_key, verbose>>

\* what the caller of the backend makes of its outcome: search_with_context
\* turns any exception into a string (lines 85-88), ask passes it on
Deliver(r) ==
    IF via = "search" /\ r.kind = "raise" THEN Returned(QueryError(r.exc)) ELSE r

\* the local server's reply arrives (_ask_ollama)
OllamaReplies(h) ==
    /\ q_pc = "asking"
    /\ provider = "local"
    /\ n_llm' = n_llm + 1
    /\ ret' = Deliver(ask_ollama(h))
    /\ q_pc' = "ready"
    /\ UNCHANGED <<provider, api_key, verbose, via, results, prompt, shown>>

\* the remote API's reply arrives (_ask_openai)
OpenAIAnswers(o) ==
    /\ q_pc = "asking"
    /\ provider = "openai"
    /\ n_llm' = n_llm + 1
    /\ ret' = Deliver(ask_openai(o))
    /\ q_pc' = "ready"
    /\ UNCHANGED <<provider, api_key, verbose, via, results, prompt, shown>>

Queries == {"q"}
Prompts == {[context |-> <<>>, question |-> "q"]}

-----------------------------------------------------------------------------
(* DataLoader (lib/sample_data.py) *)

\* URLs, as sequences of characters
Https == <<"h", "t", "t", "p", "s", ":", "/", "/">>
UrlA == Https \o <<"a", "/", "b">>                      \* https://a/b
UrlB == <<"h", "t", "t", "p", ":", "/", "/", "a">>      \* http://a
UrlC == Https \o <<"a", "/">> \o Https \o <<"b">>       \* https://a/https://b
SomeUrls == {UrlA, UrlB, UrlC}
\* the list main passes: ["https://blog.kamdev.pl"]
MainUrls ==
    <<Https \o <<"b", "l", "o", "g", ".", "k", "a", "m", "d", "e", "v", ".", "p", "l">>>>

\* the Python string of a sequence of characters
RECURSIVE Str(_)
Str(cs) == IF cs = <<>> THEN "" ELSE cs[1] \o Str(Tail(cs))

\* str.replace(pat, by): every non-overlapping occurrence, from the left
RECURSIVE ReplaceAll(_, _, _)
ReplaceAll(cs, pat, by) ==
    IF Len(cs) < Len(pat) THEN cs
    ELSE IF SubSeq(cs, 1, Len(pat)) = pat
         THEN by \o ReplaceAll(SubSeq(cs, Len(pat) + 1, Len(cs)), pat, by)
         ELSE <<cs[1]>> \o ReplaceAll(Tail(cs), pat, by)

\* url.replace('https://', '').replace('/', '_')
Sanitize(url) == ReplaceAll(ReplaceAll(url, Https, <<>>), <<"/">>, <<"_">>)

\* (mutant) the id counts the documents collected, not the URLs
DocIdByCount(idx, url) ==
    "doc-" \o ToString(Len(data)) \o "-" \o Str(Sanitize(url))

\* f"doc-{idx}-{url.replace('https://', '').replace('/', '_')}"
DocIdOf(idx, url) == "doc-" \o ToString(idx) \o "-" \o Str(Sanitize(url))

\* a fetched page: its nodes in document order, each a tag with the words of
\* its text (words are single characters here)
HiddenTags == {"script", "style", "noscript", "iframe"}
Node(tag, words) == [tag |-> tag, words |-> words]
Pages ==
    { <<>>,
      <<Node("script", <<"x">>)>>,
      <<Node("p", <<"a", "b">>)>>,
      <<Node("style", <<"x">>), Node("p", <<"a">>), Node("p", <<"b", "c">>)>> }

\* the words left once the hidden nodes are extracted
RECURSIVE VisibleWords(_)
VisibleWords(page) ==
    IF page = <<>> THEN <<>>
    ELSE (IF page[1].tag \in HiddenTags THEN <<>> ELSE page[1].words)
            \o VisibleWords(Tail(page))

\* " ".join(words)
RECURSIVE JoinWords(_)
JoinWords(ws) ==
    IF ws = <<>> THEN <<>>
    ELSE IF Len(ws) = 1 THEN <<ws[1]>>
    ELSE <<ws[1], BLANK>> \o JoinWords(Tail(ws))

\* the replies of requests.get followed by raise_for_status: an exception
\* (no connection, timeout, 4xx/5xx) or a page
GetReplies ==
    {[fails |-> f, page |-> <<>>] : f \in {"ConnectionError", "Timeout", "HTTPError"}}
        \cup {[fails |-> "no", page |-> pg] : pg \in Pages}

\* _fetch_url_text, for the reply of its GET
fetch_url_text(reply) ==
    IF reply.fails # "no" THEN <<>> ELSE JoinWords(VisibleWords(reply.page))

\* _load_sample_data: the five built-in documents, each text kept whole
SampleData ==
    << [id |-> "doc1", doc |-> <<"Chroma is an engine for vector databases.">>,
        meta |-> [source |-> "notes"]],
       [id |-> "doc2",
        doc |-> <<"OpenAI embeddings allow text to be converted into vectors.">>,
        meta |-> [source |-> "blog"]],
       [id |-> "doc3",
        doc |-> <<"LangChain makes it easier to create applications based on LLMs.">>,
        meta |-> [source |-> "documentation"]],
       [id |-> "doc4",
        doc |-> <<"Vector databases enable efficient searching through large text data sets.">>,
        meta |-> [source |-> "article"]],
       [id |-> "doc5",
        doc |-> <<"RAG combines text generation with real-time information retrieval.">>,
        meta |-> [source |-> "presentation"]] >>

\* load_docs(us) is called (lines 151-153)
LoadDocs(us) ==
    /\ ld_pc \in {"idle", "done"}
    /\ urls' = us
    /\ url_i' = 0
    /\ gets' = [i \in 1..Len(us) |-> 0]
    /\ fetched' = <<>>
    /\ IF us # <<>>
       THEN /\ data' = <<>>
            /\ ld_pc' = "fetching"
       ELSE /\ data' = SampleData
            /\ ld_pc' = "done"

\* one turn of the loop of _load_data_from_url: the URL is fetched and, when
\* it yields text, its document appended (lines 78-87)
FetchUrl(reply) ==
    /\ ld_pc = "fetching"
    /\ url_i < Len(urls)
    /\ LET url == urls[url_i + 1]
           page_body == fetch_url_text(reply)
       IN  /\ gets' = [gets EXCEPT ![url_i + 1] = @ + 1]
           /\ fetched' = Append(fetched, reply)
           /\ data' = IF page_body # <<>>
                      THEN Append(data, [id |-> DocIdOf(url_i, url),
                                         doc |-> page_body,
                                         meta |-> [source |-> Str(url)]])
                      ELSE data
    /\ url_i' = url_i + 1
    /\ UNCHANGED <<urls, ld_pc>>

\* _load_data_from_url returns data (line 88)
LoadDocsReturn ==
    /\ ld_pc = "fetching"
    /\ url_i = Len(urls)
    /\ ld_pc' = "done"
    /\ UNCHANGED <<urls, url_i, data, gets, fetched>>

-----------------------------------------------------------------------------
(* Embedder (lib/embedding.py) *)

\* the model names drawn: the default and one of the others the command line offers
ModelNames == {"all-mpnet-base-v2", "sdadas/st-polish-paraphrase-from-distilroberta"}
EmbedderProviders == {"openai", "local", "other"}

\* (mutant) the constructor never finds the model in the cache
InCacheNever(name) == FALSE

\* model_name in self._local_models
InCache(name) == \E c \in local_models : c.name = name

\* self._local_models[model_name] = model
CachePut(cache, name, model) ==
    {c \in cache : c.name # name} \cup {[name |-> name, model |-> model]}

\* the SentenceTransformer object built by the k-th load of name
ModelObject(name, k) == <<name, k>>

\* Embedder(provider, name): the constructor runs to its end, or raises for a
\* missing key or an unsupported provider (lines 21-50)
NewEmbedder(prov, name) ==
    /\ Len(embedders) < MaxEmbedders
    /\ IF prov = "openai"
       THEN /\ IF ~api_key
               THEN /\ e_ret' = "ValueError"
                    /\ UNCHANGED embedders
               ELSE /\ e_ret' = "built"
                    /\ embedders' = Append(embedders, [provider |-> prov, model_name |-> name])
            /\ UNCHANGED <<local_models, n_loaded, e_asked>>
       ELSE IF prov = "local"
            THEN /\ e_asked' = e_asked \cup {name}
                 /\ IF ~InCache(name)
                    THEN /\ n_loaded' = [n_loaded EXCEPT ![name] = @ + 1]
                         /\ local_models' =
                                CachePut(local_models, name,
                                         ModelObject(name, n_loaded[name] + 1))
                    ELSE UNCHANGED <<local_models, n_loaded>>
                 /\ e_ret' = "built"
                 /\ embedders' = Append(embedders, [provider |-> prov, model_name |-> name])
            ELSE /\ e_ret' = "ValueError"
                 /\ UNCHANGED <<embedders, local_models, n_loaded, e_asked>>

\* Embedder("local", name) when SentenceTransformer(name) raises: nothing is
\* cached and no object is constructed (line 48)
NewEmbedderLoadFails(name) ==
    /\ Len(embedders) < MaxEmbedders
    /\ ~InCache(name)
    /\ e_asked' = e_asked \cup {name}
    /\ e_ret' = "LoadError"
    /\ UNCHANGED <<embedders, local_models, n_loaded>>

\* embedder k's initialize(texts) on the local path (lines 66-67, 94-95)
EmbedLocal(k) ==
    /\ k \in 1..Len(embedders)
    /\ embedders[k].provider # "openai"
    /\ e_ret' = IF \E c \in local_models : c.name = embedders[k].model_name
                THEN "vectors"
                ELSE "KeyError"
    /\ UNCHANGED <<embedders, local_models, n_loaded, e_asked>>

\* embedder k's initialize(texts) on the remote path: the API answers or
\* raises (lines 64-65, 79-82)
EmbedOpenAI(k, fails) ==
    /\ k \in 1..Len(embedders)
    /\ embedders[k].provider = "openai"
    /\ e_ret' = IF fails THEN "APIError" ELSE "vectors"
    /\ UNCHANGED <<embedders, local_models, n_loaded, e_asked>>

-----------------------------------------------------------------------------
(* main (console.py) *)

ProviderChoices == {"openai", "local"}

\* the command lines drawn: --chunk_size/--overlap are the defaults, a small
\* valid pair or an invalid pair
ChunkOptions ==
    { [chunk_size |-> DefaultChunkSize, overlap |-> DefaultOverlap],
      [chunk_size |-> 2, overlap |-> 1],
      [chunk_size |-> 0, overlap |-> DefaultOverlap] }
Configs ==
    [embedder_provider : ProviderChoices, search_provider : ProviderChoices,
     do_import : BOOLEAN, query : {"", "q"}]

\* n_results of the query
NResults == 3

\* a set as a sequence, in some order
RECURSIVE SeqOf(_)
SeqOf(S) == IF S = {} THEN <<>> ELSE LET x == CHOOSE y \in S : TRUE
                                     IN  <<x>> \o SeqOf(S \ {x})

\* collection.query(query_embeddings, n_results=n): the n nearest records, or
\* all of them when the collection holds fewer, as one row per query
QueryResults(st, n) ==
    { LET row == SeqOf(found)
      IN  [keys |-> {"ids", "documents", "distances"},
           ids |-> <<[j \in 1..Len(row) |-> row[j].id]>>,
           documents |-> <<[j \in 1..Len(row) |-> row[j].document]>>,
           distances |-> <<[j \in 1..Len(row) |-> 0]>>]
      : found \in {S \in SUBSET st : Cardinality(S) = Min(n, Cardinality(st))} }

\* results.get("documents") and results["documents"] and results["documents"][0]
HasDocuments(res) ==
    /\ "documents" \in res.keys
    /\ res.documents # <<>>
    /\ res.documents[1] # <<>>

\* what Embedder.__init__ needs: the API key, for the openai provider
EmbedderNeedsKey == config.embedder_provider = "openai"

\* the run starts: the Embedder is built and the collection opened (lines 14-19)
MainStart ==
    /\ m_pc = "start"
    /\ IF EmbedderNeedsKey /\ ~api_key
       THEN /\ m_pc' = "crashed"
            /\ m_err' = "ValueError: Missing OpenAI API key"
       ELSE /\ m_pc' = IF config.do_import THEN "load" ELSE "query"
            /\ m_err' = m_err
    /\ UNCHANGED <<config, m_results, m_embeds, m_queries>>

\* loader.load_docs(urls) (lines 23-25)
MainLoadDocs ==
    /\ m_pc = "load"
    /\ LoadDocs(MainUrls)
    /\ m_pc' = "loading"
    /\ UNCHANGED <<config, m_err, m_results, m_embeds, m_queries>>

\* importer.load_data(documents) (lines 35-44)
MainImport ==
    /\ m_pc = "loading"
    /\ ld_pc = "done"
    /\ LoadData(data)
    /\ m_pc' = "import"
    /\ UNCHANGED <<config, m_err, m_results, m_embeds, m_queries>>

\* load_data is over: it returned, or its exception ends the run
MainImported ==
    /\ m_pc = "import"
    /\ pc = "idle"
    /\ IF outcome = "ok"
       THEN /\ m_pc' = "query"
            /\ m_err' = m_err
       ELSE /\ m_pc' = "crashed"
            /\ m_err' = outcome
    /\ UNCHANGED <<config, m_results, m_embeds, m_queries>>

\* no --query: the run is over (line 46)
MainNoQuery ==
    /\ m_pc = "query"
    /\ config.query = ""
    /\ m_pc' = "done"
    /\ UNCHANGED <<config, m_err, m_results, m_embeds, m_queries>>

\* the query is embedded and the collection searched (lines 49-51)
MainQuery ==
    /\ m_pc = "query"
    /\ config.query # ""
    /\ m_embeds' = m_embeds + 1
    /\ m_queries' = m_queries + 1
    /\ m_results' \in QueryResults(store, NResults)
    /\ m_pc' = "check"
    /\ UNCHANGED <<config, m_err>>

\* embed_fn raises on the query: the remote embeddings call failed (line 50)
MainQueryEmbedRaises ==
    /\ m_pc = "query"
    /\ config.query # ""
    /\ config.embedder_provider = "openai"
    /\ m_embeds' = m_embeds + 1
    /\ m_pc' = "crashed"
    /\ m_err' = "EmbedError"
    /\ UNCHANGED <<config, m_results, m_queries>>

\* nothing was retrieved: the run is over without an answer (lines 53-57)
MainNothingFound ==
    /\ m_pc = "check"
    /\ ~HasDocuments(m_results)
    /\ m_pc' = "done"
    /\ UNCHANGED <<config, m_err, m_results, m_embeds, m_queries>>

\* rag = LLMSearch(provider=config.search_provider, ..., verbose=True) (lines 58-60)
MainNewRag ==
    /\ m_pc = "check"
    /\ HasDocuments(m_results)
    /\ provider' = config.search_provider
    /\ verbose' = TRUE
    /\ q_pc' = "new"
    /\ m_pc' = "rag"
    /\ UNCHANGED <<api_key, via, results, prompt, shown, ret, n_llm>>
    /\ UNCHANGED <<config, m_err, m_results, m_embeds, m_queries>>

\* LLMSearch.__init__ raised: the run ends
MainRagFailed ==
    /\ m_pc = "rag"
    /\ q_pc = "failed"
    /\ m_pc' = "crashed"
    /\ m_err' = ret.exc
    /\ UNCHANGED <<config, m_results, m_embeds, m_queries>>

\* rag.search_with_context(config.query, results) (line 61)
MainSearch ==
    /\ m_pc = "rag"
    /\ SearchWithContext(config.query, m_results)
    /\ m_pc' = "answer"
    /\ UNCHANGED <<config, m_err, m_results, m_embeds, m_queries>>

\* the response is printed (line 62)
MainPrint ==
    /\ m_pc = "answer"
    /\ q_pc = "ready"
    /\ ret.kind # "none"
    /\ IF ret.kind = "return"
       THEN /\ m_pc' = "done"
            /\ m_err' = m_err
       ELSE /\ m_pc' = "crashed"
            /\ m_err' = ret.exc
    /\ UNCHANGED <<config, m_results, m_embeds, m_queries>>

-----------------------------------------------------------------------------
(* Each component at rest, for the specifications that do not run it *)

\* the importer at rest, with an empty collection
ImporterIdle ==
    /\ embed_fn = TRUE
    /\ store = {}
    /\ store0 = {}
    /\ pc = "idle"
    /\ items = <<>>
    /\ item_i = 0
    /\ chunks = <<>>
    /\ chunk_i = 0
    /\ outcome = "none"
    /\ n_get = 0
    /\ n_embed = 0
    /\ n_add = 0
    /\ n_calls = 0
    /\ rerun = FALSE
    /\ resumed = FALSE
    /\ base = store

\* no LLMSearch object yet
LLMIdle ==
    /\ provider = "local"
    /\ api_key = FALSE
    /\ verbose = FALSE
    /\ q_pc = "none"
    /\ via = "none"
    /\ results = NoResults
    /\ prompt = NoPrompt
    /\ shown = <<>>
    /\ ret = NoRet
    /\ n_llm = 0

\* load_docs not called
LoaderIdle ==
    /\ ld_pc = "idle"
    /\ urls = <<>>
    /\ url_i = 0
    /\ data = <<>>
    /\ gets = <<>>
    /\ fetched = <<>>

\* no console run
MainIdle ==
    /\ config = [embedder_provider |-> "local", search_provider |-> "local",
                 do_import |-> FALSE, query |-> ""]
    /\ m_pc = "none"
    /\ m_err = "none"
    /\ m_results = NoResults
    /\ m_embeds = 0
    /\ m_queries = 0

\* no concurrent importers
RaceIdle ==
    /\ r_pc = [p \in Importers |-> "idle"]
    /\ r_items = [p \in Importers |-> <<>>]
    /\ r_item_i = [p \in Importers |-> 0]
    /\ r_chunks = [p \in Importers |-> <<>>]
    /\ r_chunk_i = [p \in Importers |-> 0]
    /\ r_looked = [p \in Importers |-> 0]
    /\ r_adds = <<>>

\* no Embedder constructed, the process-wide cache as the class body leaves it
EmbedderIdle ==
    /\ local_models = {}
    /\ embedders = <<>>
    /\ e_ret = "none"
    /\ n_loaded = [name \in ModelNames |-> 0]
    /\ e_asked = {}

\* no direct call of the chunker
ChunkerIdle ==
    /\ ck_text = <<>>
    /\ ck_out = Pending

-----------------------------------------------------------------------------
(* The chunker on its own: any text, any parameters *)

InitChunk ==
    /\ ck_out = Pending
    /\ ImporterIdle
    /\ LLMIdle
    /\ LoaderIdle
    /\ MainIdle
    /\ EmbedderIdle
    /\ RaceIdle
    /\ \/ /\ ck_text \in Texts
          /\ chunk_size \in Params
          /\ overlap \in Params
       \/ \E e \in Examples :
             /\ ck_text = e.text
             /\ chunk_size = e.size
             /\ overlap = e.ov

NextChunk == ChunkText /\ UNCHANGED notChunk

SpecChunk == InitChunk /\ [][NextChunk]_vars

-----------------------------------------------------------------------------
(* The importer against the collection *)

\* what an earlier run of the program left in the persistent collection:
\* nothing, or the one chunk of document d1 = "ab" imported with chunk_size 2
\* from another source
SeedStore ==
    {Record(ChunkId("d1", 0), LetterText(2), Embed(LetterText(2)),
            [source |-> "blog"])}

InitImport ==
    /\ \/ /\ chunk_size \in Params
          /\ overlap \in Params
       \/ \E e \in Examples :
             /\ chunk_size = e.size
             /\ overlap = e.ov
    /\ embed_fn \in BOOLEAN
    /\ store \in {{}, SeedStore}
    /\ store0 = store
    /\ pc = "idle"
    /\ items = <<>>
    /\ item_i = 0
    /\ chunks = <<>>
    /\ chunk_i = 0
    /\ outcome = "none"
    /\ n_get = 0
    /\ n_embed = 0
    /\ n_add = 0
    /\ n_calls = 0
    /\ rerun = FALSE
    /\ resumed = FALSE
    /\ base = store
    /\ ck_text = <<>>
    /\ ck_out = Pending
    /\ LLMIdle
    /\ LoaderIdle
    /\ MainIdle
    /\ EmbedderIdle
    /\ RaceIdle

NextImport ==
    \/ \E its \in ListsUpTo(Docs(chunk_size, overlap), MaxDocs) :
          LoadData(its) /\ UNCHANGED notImport
    \/ NextItem /\ UNCHANGED notImport
    \/ Lookup /\ UNCHANGED notImport
    \/ Add /\ UNCHANGED notImport
    \/ EmbedRaises /\ UNCHANGED notImport
    \/ AddRaises /\ UNCHANGED notImport
    \/ Return /\ UNCHANGED notImport

SpecImport == InitImport /\ [][NextImport]_vars

-----------------------------------------------------------------------------
(* Two importers against one collection *)

\* the valid parameter pairs the two importers are built with
RaceParams == {pr \in Params \X Params : ValidParams(pr[1], pr[2]) /\ pr[1] >= 2}

InitRace ==
    /\ \E pr \in RaceParams :
          /\ chunk_size = pr[1]
          /\ overlap = pr[2]
    /\ embed_fn \in BOOLEAN
    /\ store \in {{}, SeedStore}
    /\ store0 = store
    /\ pc = "idle"
    /\ items = <<>>
    /\ item_i = 0
    /\ chunks = <<>>
    /\ chunk_i = 0
    /\ outcome = "none"
    /\ n_get = 0
    /\ n_embed = 0
    /\ n_add = 0
    /\ n_calls = 0
    /\ rerun = FALSE
    /\ resumed = FALSE
    /\ base = store
    /\ RaceIdle
    /\ ChunkerIdle
    /\ LLMIdle
    /\ LoaderIdle
    /\ MainIdle
    /\ EmbedderIdle

NextRace ==
    \/ \E p \in Importers :
          \E its \in ListsUpTo(Docs(chunk_size, overlap), MaxRaceDocs) :
             RaceLoadData(p, its) /\ UNCHANGED notRace
    \/ \E p \in Importers : RaceNextItem(p) /\ UNCHANGED notRace
    \/ \E p \in Importers : RaceLookup(p) /\ UNCHANGED notRace
    \/ \E p \in Importers : RaceAdd(p) /\ UNCHANGED notRace
    \/ \E p \in Importers : RaceReturn(p) /\ UNCHANGED notRace

SpecRace == InitRace /\ [][NextRace]_vars

-----------------------------------------------------------------------------
(* Embedders in one process *)

InitEmbedder ==
    /\ EmbedderIdle
    /\ chunk_size = DefaultChunkSize
    /\ overlap = DefaultOverlap
    /\ ImporterIdle
    /\ ChunkerIdle
    /\ RaceIdle
    /\ LoaderIdle
    /\ api_key \in BOOLEAN
    /\ provider = "local"
    /\ verbose = FALSE
    /\ q_pc = "none"
    /\ via = "none"
    /\ results = NoResults
    /\ prompt = NoPrompt
    /\ shown = <<>>
    /\ ret = NoRet
    /\ n_llm = 0
    /\ MainIdle

NextEmbedder ==
    \/ \E prov \in EmbedderProviders, name \in ModelNames :
          NewEmbedder(prov, name) /\ UNCHANGED notEmbedder
    \/ \E name \in ModelNames : NewEmbedderLoadFails(name) /\ UNCHANGED notEmbedder
    \/ \E k \in 1..MaxEmbedders : EmbedLocal(k) /\ UNCHANGED notEmbedder
    \/ \E k \in 1..MaxEmbedders, fails \in BOOLEAN :
          EmbedOpenAI(k, fails) /\ UNCHANGED notEmbedder

SpecEmbedder == InitEmbedder /\ [][NextEmbedder]_vars

-----------------------------------------------------------------------------
(* The answer engine on its own: an LLMSearch object is built and used *)

InitAnswer ==
    /\ provider \in Providers
    /\ api_key \in BOOLEAN
    /\ verbose \in BOOLEAN
    /\ q_pc = "new"
    /\ via = "none"
    /\ results = NoResults
    /\ prompt = NoPrompt
    /\ shown = <<>>
    /\ ret = NoRet
    /\ n_llm = 0
    /\ chunk_size = DefaultChunkSize
    /\ overlap = DefaultOverlap
    /\ ImporterIdle
    /\ ck_text = <<>>
    /\ ck_out = Pending
    /\ LoaderIdle
    /\ MainIdle
    /\ EmbedderIdle
    /\ RaceIdle

NextAnswer ==
    \/ NewLLMSearch /\ UNCHANGED notLLM
    \/ \E res \in ResultSets, q \in Queries :
          SearchWithContext(q, res) /\ UNCHANGED notLLM
    \/ \E p \in Prompts : Ask(p) /\ UNCHANGED notLLM
    \/ \E h \in HttpReplies : OllamaReplies(h) /\ UNCHANGED notLLM
    \/ \E o \in OpenAIReplies : OpenAIAnswers(o) /\ UNCHANGED notLLM

SpecAnswer == InitAnswer /\ [][NextAnswer]_vars

-----------------------------------------------------------------------------
(* The loader on its own: load_docs over any list of URLs *)

\* lists of 1..n elements of S, and the empty list
UrlLists == ListsUpTo(SomeUrls, MaxUrls)

InitLoader ==
    /\ LoaderIdle
    /\ chunk_size = DefaultChunkSize
    /\ overlap = DefaultOverlap
    /\ ImporterIdle
    /\ ChunkerIdle
    /\ LLMIdle
    /\ MainIdle
    /\ EmbedderIdle
    /\ RaceIdle

NextLoader ==
    \/ \E us \in UrlLists : LoadDocs(us) /\ UNCHANGED notLoader
    \/ \E reply \in GetReplies : FetchUrl(reply) /\ UNCHANGED notLoader
    \/ LoadDocsReturn /\ UNCHANGED notLoader

SpecLoader == InitLoader /\ [][NextLoader]_vars

-----------------------------------------------------------------------------
(* A console run: main, with the components it drives *)

InitConsole ==
    /\ config \in Configs
    /\ api_key \in BOOLEAN
    /\ \E o \in ChunkOptions :
          /\ chunk_size = o.chunk_size
          /\ overlap = o.overlap
    /\ store \in {{}, SeedStore}
    /\ store0 = store
    /\ m_pc = "start"
    /\ m_err = "none"
    /\ m_results = NoResults
    /\ m_embeds = 0
    /\ m_queries = 0
    /\ embed_fn = TRUE
    /\ pc = "idle"
    /\ items = <<>>
    /\ item_i = 0
    /\ chunks = <<>>
    /\ chunk_i = 0
    /\ outcome = "none"
    /\ n_get = 0
    /\ n_embed = 0
    /\ n_add = 0
    /\ n_calls = 0
    /\ rerun = FALSE
    /\ resumed = FALSE
    /\ base = store
    /\ provider = "local"
    /\ verbose = FALSE
    /\ q_pc = "none"
    /\ via = "none"
    /\ results = NoResults
    /\ prompt = NoPrompt
    /\ shown = <<>>
    /\ ret = NoRet
    /\ n_llm = 0
    /\ LoaderIdle
    /\ ChunkerIdle
    /\ RaceIdle
    /\ EmbedderIdle

NextConsole ==
    \/ MainStart /\ UNCHANGED <<cfgVars, sideVars, impVars, qVars, ldVars>>
    \/ MainLoadDocs /\ UNCHANGED <<cfgVars, sideVars, impVars, qVars>>
    \/ \E reply \in GetReplies : FetchUrl(reply) /\ UNCHANGED notLoader
    \/ LoadDocsReturn /\ UNCHANGED notLoader
    \/ MainImport /\ UNCHANGED <<sideVars, qVars, ldVars>>
    \/ NextItem /\ UNCHANGED notImport
    \/ Lookup /\ UNCHANGED notImport
    \/ Add /\ UNCHANGED notImport
    \/ EmbedRaises /\ config.embedder_provider = "openai" /\ UNCHANGED notImport
    \/ AddRaises /\ UNCHANGED notImport
    \/ Return /\ UNCHANGED notImport
    \/ MainImported /\ UNCHANGED <<cfgVars, sideVars, impVars, qVars, ldVars>>
    \/ MainNoQuery /\ UNCHANGED <<cfgVars, sideVars, impVars, qVars, ldVars>>
    \/ MainQuery /\ UNCHANGED <<cfgVars, sideVars, impVars, qVars, ldVars>>
    \/ MainQueryEmbedRaises /\ UNCHANGED <<cfgVars, sideVars, impVars, qVars, ldVars>>
    \/ MainNothingFound /\ UNCHANGED <<cfgVars, sideVars, impVars, qVars, ldVars>>
    \/ MainNewRag /\ UNCHANGED <<cfgVars, sideVars, impVars, ldVars>>
    \/ NewLLMSearch /\ m_pc = "rag" /\ UNCHANGED notLLM
    \/ MainRagFailed /\ UNCHANGED <<cfgVars, sideVars, impVars, qVars, ldVars>>
    \/ MainSearch /\ UNCHANGED <<cfgVars, sideVars, impVars, ldVars>>
    \/ \E h \in HttpReplies : OllamaReplies(h) /\ UNCHANGED notLLM
    \/ \E o \in OpenAIReplies : OpenAIAnswers(o) /\ UNCHANGED notLLM
    \/ MainPrint /\ UNCHANGED <<cfgVars, sideVars, impVars, qVars, ldVars>>

SpecConsole == InitConsole /\ [][NextConsole]_vars

-----------------------------------------------------------------------------
(* Claims about the chunker, checked under SpecChunk *)

\* the call returned a list of chunks
Chunked == ck_out.raised = "no"

\* character position p of the text lies in the chunk `piece`, and the chunk
\* holds that character at the matching place
Covers(piece, p) ==
    /\ piece.lo <= p
    /\ p < piece.hi
    /\ p - piece.lo + 1 <= Len(piece.chunk)
    /\ piece.chunk[p - piece.lo + 1] = ck_text[p + 1]

\* C2: for valid parameters every character position 0..L-1 of the text lies
\* inside the source range of at least one returned chunk.
C2_Coverage ==
    Chunked =>
        \A p \in 0..(Len(ck_text) - 1) :
            \E i \in 1..Len(ck_out.pieces) : Covers(ck_out.pieces[i], p)

\* a text of several chunks was chunked with a real overlap
C2_Witness ==
    /\ Chunked
    /\ Len(ck_out.pieces) >= 3
    /\ overlap >= 1
    /\ ck_text \in Texts

\* C3: every chunk but the last is text[k*step : k*step + size] for
\* k = 0, 1, ... with step = size - overlap, so the starts of consecutive
\* non-final chunks differ by size - overlap and the two chunks share exactly
\* `overlap` characters.
C3_Stride ==
    Chunked =>
        LET ps == ck_out.pieces
            n == Len(ps)
        IN  /\ \A i \in 1..(n - 1) :
                  /\ ps[i].lo = (i - 1) * (chunk_size - overlap)
                  /\ ps[i].hi = ps[i].lo + chunk_size
                  /\ ps[i].chunk = SubSeq(ck_text, ps[i].lo + 1, ps[i].lo + chunk_size)
            /\ \A i \in 1..(n - 2) :
                  /\ ps[i + 1].lo - ps[i].lo = chunk_size - overlap
                  /\ ps[i].hi - ps[i + 1].lo = overlap
                  /\ SubSeq(ps[i].chunk, chunk_size - overlap + 1, chunk_size)
                        = SubSeq(ps[i + 1].chunk, 1, overlap)

\* two non-final chunks in a row that really overlap
C3_Witness ==
    /\ Chunked
    /\ Len(ck_out.pieces) >= 3
    /\ overlap >= 1
    /\ ck_out.pieces[2].lo = chunk_size - overlap

\* the right-aligned slice text[max(0, len(text) - size):]
RightAligned(text, size) ==
    SubSeq(text, Max(0, Len(text) - size) + 1, Len(text))

\* the final-chunk policy, for one chunked text
FinalChunkPolicy ==
    LET ps == ck_out.pieces
        n == Len(ps)
    IN  /\ n >= 1
        /\ ps[1].lo = 0
        /\ ps[n].chunk = RightAligned(ck_text, chunk_size)
        /\ ps[n].hi = Len(ck_text)
        /\ Len(ck_text) <= chunk_size => ChunkList(ps) = <<ck_text>>

\* C6 as stated: every text, the empty one included, yields at least one
\* chunk, starting at 0 and ending with the right-aligned slice.
C6_Original == Chunked => FinalChunkPolicy

\* C6 (amended): every non-empty text yields at least one chunk, the first cut
\* at offset 0 and the last equal to text[max(0, len(text)-size):]; a non-empty
\* text with len(text) <= size yields exactly one chunk, the text itself.  The
\* empty text yields no chunk at all.
C6_FinalChunk ==
    Chunked =>
        IF Len(ck_text) > 0 THEN FinalChunkPolicy ELSE ck_out.pieces = <<>>

\* a text shorter than size and a text whose last chunk re-overlaps
C6_Witness ==
    /\ Chunked
    /\ \/ /\ Len(ck_text) > 0
          /\ Len(ck_text) < chunk_size
       \/ /\ Len(ck_out.pieces) >= 2
          /\ ck_out.pieces[Len(ck_out.pieces)].lo
                < ck_out.pieces[Len(ck_out.pieces) - 1].hi - overlap

-----------------------------------------------------------------------------
(* Claims about the importer, checked under SpecImport *)

StoreIds(st) == {r.id : r \in st}

\* C1: a load_data call that repeats the documents of the previous, successful
\* call (same importer, same chunk_size and overlap) makes no collection.add
\* call, raises nothing and leaves the collection exactly as the first call
\* left it.
C1_ReimportIdempotent ==
    rerun =>
        /\ n_add = 0
        /\ n_embed = 0
        /\ store = store0
        /\ outcome \in {"running", "ok"}

\* a repeated import of documents that did insert chunks the first time
C1_Witness ==
    /\ rerun
    /\ pc = "idle"
    /\ outcome = "ok"
    /\ Len(items) = 2
    /\ n_get >= 3
    /\ Cardinality(store) >= 3

\* the parameters of the importer do not pass __chunk_text's check
BadParams == ~(chunk_size > 0 /\ overlap >= 0 /\ overlap < chunk_size)

\* C4 as stated: with invalid parameters every load_data call fails with the
\* validation error before any lookup, embedding or insert.
C4_Original ==
    (BadParams /\ pc = "idle" /\ n_calls > 0) =>
        /\ outcome = "ValueError"
        /\ n_get = 0
        /\ n_embed = 0
        /\ n_add = 0
        /\ store = store0

\* C4 (amended): with invalid parameters a load_data call over a non-empty
\* document list fails with the validation error, raised when the first
\* document is chunked, before any store lookup, embedding call or insert, so
\* the store is unchanged; over an empty list the call returns normally, and
\* touches the store no more.
C4_InvalidParamsFatal ==
    (BadParams /\ n_calls > 0) =>
        /\ n_get = 0
        /\ n_embed = 0
        /\ n_add = 0
        /\ store = store0
        /\ pc \in {"idle", "item"}
        /\ pc = "item" => item_i = 1
        /\ pc = "idle" =>
              outcome = (IF items = <<>> THEN "ok" ELSE "ValueError")

\* a failed call over documents, against a collection that holds a record
C4_Witness ==
    /\ BadParams
    /\ pc = "idle"
    /\ outcome = "ValueError"
    /\ Len(items) = 2
    /\ store # {}

\* ceil(a / b) for a >= 0, b > 0
CeilDiv(a, b) == (a + b - 1) \div b

\* the call imported the single document items[1], longer than chunk_size,
\* into an empty collection
SingleLongImport ==
    /\ pc = "idle"
    /\ outcome = "ok"
    /\ store0 = {}
    /\ Len(items) = 1
    /\ Len(items[1].doc) > chunk_size

\* C7: importing one document with id D and text length L > size into an
\* empty store inserts exactly n = ceil((L - size) / (size - overlap)) + 1
\* records, with ids D_chunk0 .. D_chunk(n-1) in chunk order; the 10-letter
\* example with size 4, overlap 1 stores "abcd", "defg", "ghij", the
\* 1000-character example with size 500, overlap 50 stores 3 chunks.
C7_ChunkIds ==
    SingleLongImport =>
        LET D == items[1].id
            text == items[1].doc
            L == Len(text)
            step == chunk_size - overlap
            n == CeilDiv(L - chunk_size, step) + 1
            start(i) == IF i = n - 1 THEN L - chunk_size ELSE i * step
        IN  /\ n_add = n
            /\ Cardinality(store) = n
            /\ StoreIds(store) = {D \o "_chunk" \o ToString(i) : i \in 0..(n - 1)}
            /\ \A i \in 0..(n - 1) :
                  \E r \in store :
                      /\ r.id = D \o "_chunk" \o ToString(i)
                      /\ r.document = SubSeq(text, start(i) + 1, start(i) + chunk_size)
            /\ (L = 10 /\ chunk_size = 4 /\ overlap = 1) =>
                  /\ StoreIds(store) = {D \o "_chunk0", D \o "_chunk1", D \o "_chunk2"}
                  /\ {r.document : r \in store}
                        = {<<"a", "b", "c", "d">>, <<"d", "e", "f", "g">>,
                           <<"g", "h", "i", "j">>}
            /\ (L = 1000 /\ chunk_size = DefaultChunkSize /\ overlap = DefaultOverlap) =>
                  StoreIds(store) = {D \o "_chunk0", D \o "_chunk1", D \o "_chunk2"}

\* the 1000-character example was imported
C7_Witness ==
    /\ SingleLongImport
    /\ Len(items[1].doc) = 1000
    /\ Cardinality(store) = 3

\* the chunk id load_data is about to add
PendingId == ChunkId(items[item_i].id, chunk_i)

\* C12: with load_data calls run one at a time, collection.add is only ever
\* reached for a chunk id the store does not hold, so the store never holds
\* two records with the same id, whatever documents the calls are given
C12_IdsUnique ==
    /\ pc = "add" => ~\E r \in store : r.id = PendingId
    /\ \A r1, r2 \in store : r1.id = r2.id => r1 = r2

\* a finished call whose list names the same document id twice with
\* different texts, into a store that already held records
C12_Witness ==
    /\ pc = "idle"
    /\ outcome = "ok"
    /\ Len(items) = 2
    /\ items[1].id = items[2].id
    /\ items[1].doc # items[2].doc
    /\ items[1].doc # <<>>
    /\ items[2].doc # <<>>
    /\ n_add > 0
    /\ store0 # {}

\* C14: load_data only ever adds.  Every record the collection held when the
\* call began is still in it, unchanged; every add brought a new id, so a
\* chunk whose id exists is skipped whatever its text, metadata or the
\* chunk parameters; and embed_fn is called only for a chunk being added
C14_OnlyAdds ==
    /\ store0 \subseteq store
    /\ n_add = Cardinality(StoreIds(store) \ StoreIds(store0))
    /\ n_embed = IF embed_fn
                 THEN n_add + (IF outcome \in {"EmbedError", "AddError"} THEN 1 ELSE 0)
                 ELSE 0

\* a finished call gave document d1 a first chunk with another text, other
\* metadata and another chunk_size than the stored d1_chunk0: the stored
\* record is as it was, and later chunks of the document were added
C14_Witness ==
    /\ pc = "idle"
    /\ outcome = "ok"
    /\ store0 = SeedStore
    /\ chunk_size = 4
    /\ Len(items) = 1
    /\ items[1].id = "d1"
    /\ Len(items[1].doc) = MaxDocLen
    /\ items[1].meta # [source |-> "blog"]
    /\ SeedStore \subseteq store
    /\ n_get > n_add
    /\ n_add > 0

\* what one uninterrupted import leaves: the chunks of item from index i on,
\* each stored under its id unless the id is taken
RECURSIVE ImportChunks(_, _, _, _)
ImportChunks(st, item, cs, i) ==
    IF i >= Len(cs) THEN st
    ELSE LET id == item.id \o "_chunk" \o ToString(i)
             rec == [id |-> id, document |-> cs[i + 1],
                     embedding |-> IF embed_fn THEN Embed(cs[i + 1]) ELSE NoEmbedding,
                     metadata |-> item.meta]
         IN  ImportChunks(IF \E r \in st : r.id = id THEN st ELSE st \cup {rec},
                          item, cs, i + 1)

\* the collection after one uninterrupted import of its into st
RECURSIVE Imported(_, _)
Imported(st, its) ==
    IF its = <<>> THEN st
    ELSE Imported(ImportChunks(st, Head(its),
                               ChunkList(chunk_text(Head(its).doc, chunk_size,
                                                    overlap).pieces), 0),
                  Tail(its))

\* an embedding call or an insert has ended the call
Interrupted == pc = "idle" /\ outcome \in Interruptions

\* the call that repeated the interrupted call's documents has returned
ResumedToCompletion == resumed /\ pc = "idle" /\ outcome = "ok"

\* C16: when an embedding call or an insert raises part-way through
\* load_data, the records inserted before the failure stay in the store and
\* are records of the full import; a following call with the same documents
\* that completes inserts exactly the chunks still missing and leaves the
\* store one uninterrupted import would have left from the same initial store
C16_ResumeConverges ==
    /\ Interrupted =>
          /\ store0 \subseteq store
          /\ Cardinality(store \ store0) = n_add
          /\ store \subseteq Imported(store0, items)
    /\ ResumedToCompletion =>
          /\ store = Imported(base, items)
          /\ n_add = Cardinality(Imported(base, items) \ store0)

\* a two-document import was interrupted after it had inserted records, and
\* the repeated call inserted the rest
C16_Witness ==
    /\ ResumedToCompletion
    /\ Len(items) = 2
    /\ items[1].id # items[2].id
    /\ Cardinality(store0 \ base) > 0
    /\ n_add > 0
    /\ base # {}

-----------------------------------------------------------------------------
(* Claims about concurrent importers, checked under SpecRace *)

\* the j-th and the k-th add call were made for the same chunk id
DoubleInsert(j, k) ==
    /\ j < k
    /\ r_adds[j].id = r_adds[k].id

\* C13: the dedup is check-then-insert and not atomic.  An id is added twice
\* only by two different importers, and only when the second adder looked
\* the id up before the first add was made, so that both saw it absent; the
\* interleaving in which this happens exists (C13_Witness)
C13_CheckThenInsertRace ==
    \A j, k \in 1..Len(r_adds) :
        DoubleInsert(j, k) =>
            /\ r_adds[j].by # r_adds[k].by
            /\ r_adds[k].looked < j
            /\ r_adds[j].looked < j

\* both importers have added the same chunk id, each having seen it absent,
\* and the collection was handed two different records under that id
C13_Witness ==
    /\ \E j, k \in 1..Len(r_adds) : DoubleInsert(j, k)
    /\ \E r1, r2 \in store : r1.id = r2.id /\ r1 # r2
    /\ \A p \in Importers : r_pc[p] = "done"

-----------------------------------------------------------------------------
(* Claims about the embedder, checked under SpecEmbedder *)

\* the model names the cache has an entry for
CachedNames == {c.name : c \in local_models}

\* C15: the process-wide cache starts empty and gets an entry for a model
\* name only once a local Embedder was constructed with that name; each name
\* is loaded at most once, and its entry is the object of that one load, so
\* no entry was removed or replaced; every local Embedder constructed has
\* its model in the cache, and no embed call fails to find it
C15_LocalModelCache ==
    /\ CachedNames \subseteq e_asked
    /\ \A name \in ModelNames :
          /\ n_loaded[name] <= 1
          /\ n_loaded[name] = 1 <=> name \in CachedNames
          /\ name \in CachedNames =>
                {c \in local_models : c.name = name}
                    = {[name |-> name, model |-> <<name, 1>>]}
    /\ \A k \in 1..Len(embedders) :
          embedders[k].provider = "local" => embedders[k].model_name \in CachedNames
    /\ e_ret # "KeyError"

\* two local Embedders share one model name, a third uses another, and an
\* embed call has returned vectors
C15_Witness ==
    /\ Len(embedders) = 3
    /\ embedders[1] = [provider |-> "local", model_name |-> "all-mpnet-base-v2"]
    /\ embedders[2] = [provider |-> "local", model_name |-> "all-mpnet-base-v2"]
    /\ embedders[3] = [provider |-> "local", model_name |-> "sdadas/st-polish-paraphrase-from-distilroberta"]
    /\ Cardinality(local_models) = 2
    /\ e_ret = "vectors"

-----------------------------------------------------------------------------
(* Claims about the answer engine, checked under SpecAnswer *)

\* the retrieval result has no documents: the key is missing, the list is
\* empty, or its first row is empty
NoDocuments(res) ==
    \/ "documents" \notin res.keys
    \/ res.documents = <<>>
    \/ res.documents[1] = <<>>

\* C5: when the retrieval result has no documents, search_with_context returns
\* the fixed message "[No results to process.]" and sends no request to any
\* LLM backend.
C5_NoResultsNoLLM ==
    (via = "search" /\ NoDocuments(results)) =>
        /\ ret = Returned(JStr(<<"[No results to process.]">>))
        /\ n_llm = 0
        /\ q_pc = "ready"

\* a retrieval with one empty row, given to a verbose engine
C5_Witness ==
    /\ via = "search"
    /\ "documents" \in results.keys
    /\ results.documents = << <<>> >>
    /\ verbose
    /\ ret.kind = "return"

\* C8 as stated: with provider "local", ask always returns a string and never
\* raises, whatever the HTTP call does and whatever body it returns.
C8_LocalSoftFail ==
    (provider = "local" /\ via = "ask" /\ q_pc = "ready" /\ n_llm = 1) =>
        /\ ret.kind = "return"
        /\ ret.val.t = "str"

\* search_with_context has come back from a call with a non-empty retrieval
SearchedWithDocuments ==
    /\ via = "search"
    /\ ~NoDocuments(results)
    /\ q_pc = "ready"

\* C11 as stated: with a non-empty retrieval, search_with_context returns a
\* string (the answer or an error text), never lets an exception of the
\* backend call out, and sends at most one backend request.
C11_SearchSoftFail ==
    /\ (via = "search" /\ ~NoDocuments(results)) => n_llm <= 1
    /\ SearchedWithDocuments =>
          /\ ret.kind = "return"
          /\ ret.val.t = "str"

-----------------------------------------------------------------------------
(* Claims about the loader, checked under SpecLoader *)

\* the sanitized form of each URL drawn, written out
SanitizedUrl(url) ==
    CASE url = UrlA -> "a_b"
      [] url = UrlB -> "http:__a"
      [] url = UrlC -> "a_b"

\* the GET at position i answered with a page that has visible text
YieldedText(i) ==
    /\ fetched[i].fails = "no"
    /\ \E k \in 1..Len(fetched[i].page) :
          /\ fetched[i].page[k].tag \notin HiddenTags
          /\ fetched[i].page[k].words # <<>>

\* the positions of urls that yielded text, in input order
RECURSIVE YieldingFrom(_)
YieldingFrom(i) ==
    IF i > Len(urls) THEN <<>>
    ELSE (IF YieldedText(i) THEN <<i>> ELSE <<>>) \o YieldingFrom(i + 1)

LoadedFromUrls == ld_pc = "done" /\ urls # <<>>

-----------------------------------------------------------------------------
(* Claims about a console run, checked under SpecConsole *)

\* an openai provider is selected and OPENAI_API_KEY is absent
MissingKey ==
    /\ ~api_key
    /\ config.embedder_provider = "openai" \/ config.search_provider = "openai"

\* C9: in a console run with an openai provider selected and no API key, the
\* run never completes, and no record is added, no text embedded, no
\* retrieval made and no LLM request sent
C9_FailsAtStartup ==
    MissingKey =>
        /\ m_pc # "done"
        /\ n_add = 0
        /\ n_embed = 0
        /\ m_embeds = 0
        /\ m_queries = 0
        /\ n_llm = 0

====
